---- MODULE Spec2Model ----
(***************************************************************************)
(* The contact / chat / message consistency core of back-a-p4.             *)
(*                                                                         *)
(* The store is the three MongoDB collections behind the Mongoose models   *)
(* Contact, Chat and Message.  Every HTTP handler is a sequence of steps,  *)
(* one step per awaited store operation: a step runs the handler's local   *)
(* code up to and including that operation.  Two requests can be in flight *)
(* at once (Spec); SeqSpec starts a request only when no other is running. *)
(*                                                                         *)
(* Library behaviour the handlers rest on (Mongoose):                      *)
(*   - ids are ObjectIds: findById / findByIdAndDelete / a query on an     *)
(*     ObjectId path reject with a CastError when the string is no         *)
(*     ObjectId;                                                           *)
(*   - save() of a new document inserts it; save() of a loaded document    *)
(*     sends only the paths modified since loading ($set), an array push   *)
(*     as $push, and rejects with DocumentNotFoundError when the document  *)
(*     is gone;                                                            *)
(*   - schema setters (lowercase, trim) run on saved values and on query   *)
(*     filters;                                                            *)
(*   - save() waits for an async post('save') hook and rejects when the    *)
(*     hook rejects.                                                       *)
(*                                                                         *)
(* Encoding of id strings: n > 0 is the n-th ObjectId of its collection,   *)
(* NULL (0) is null / undefined / the empty string, BadId is a non-empty   *)
(* string that is no ObjectId.                                             *)
(***************************************************************************)
EXTENDS Integers, Sequences, FiniteSets, TLC

VARIABLES
  contacts,     \* Contact collection: id -> [name, email, phone, chatId]
  chats,        \* Chat collection: id -> [contactId, messageIds, lastMessage, unreadCount, isArchived]
  messages,     \* Message collection: id -> [chatId, content]
  updatedOrder, \* chat ids by ascending updatedAt (the last one was written last)
  nextId,       \* next fresh ObjectId of each collection
  req,          \* the requests in flight and the last response of each connection
  failures,     \* number of store writes that have failed so far
  unreadSince,  \* history: chat id -> Messages added to it (POST /messages answered 201) since its last completed read
  sinceReadStart, \* history: chat id -> Messages of it saved since the latest read of it arrived
  before,       \* history: the store when the latest request arrived, when it arrived
                \* with no other request in flight (<<>> otherwise)
  overlapped    \* history: some request arrived while another was in flight

vars ==
  <<contacts, chats, messages, updatedOrder, nextId, req, failures, unreadSince,
    sinceReadStart, before, overlapped>>

store == <<contacts, chats, messages>>

\* ------------------------------------------------------------------ bounds

MaxContacts == 2
MaxChats == 2
MaxMessages == 2
MaxFailures == 1
MaxInFlight == 2
MaxHistory == 52

\* ------------------------------------------------------------------ values

NULL == 0

BadId == -1

\* a chatId that is the empty string or spaces only
BlankChatId == -2

IsObjectId(x) == x > 0

Slots == 1..MaxInFlight

ContactIds == 1..MaxContacts

ChatIds == 1..MaxChats

MessageIds == 1..MaxMessages

Ana == <<"A", "n", "a">>

Bob == <<"B", "o", "b">>

Blank == <<" ", " ">>

MailA == <<"a", "@", "x", ".", "i", "o">>

MailAUpper == <<"A", "@", "x", ".", "i", "o">>

MailB == <<"b", "@", "x", ".", "i", "o">>

Phone9 == <<"1", "2", "3", "4", "5", "6", "7", "8", "9">>

Phone10 == <<"1", "2", "3", "4", "5", "6", "7", "8", "9", "0">>

NoMail == <<"a", "x">>

Hi == <<"h", "i">>

\* ------------------------------------------------------------------ validation

Digits == {"0", "1", "2", "3", "4", "5", "6", "7", "8", "9"}

\* z.string().email(): one "@", a non-empty local part, a dotted domain whose
\* last label has at least two characters.
IsEmail(e) ==
  \E i \in 2..(Len(e) - 1) :
    /\ e[i] = "@"
    /\ \A j \in DOMAIN e : j # i => e[j] # "@"
    /\ \E d \in (i + 2)..(Len(e) - 2) : e[d] = "."

\* z.string().regex(/^\d{9}$/)
IsPhone(p) == Len(p) = 9 /\ \A i \in DOMAIN p : p[i] \in Digits

\* contactValidationSchema.parse succeeds
ContactValid(body) ==
  /\ Len(body.name) >= 2
  /\ IsEmail(body.email)
  /\ IsPhone(body.phone)

\* chatValidationSchema.parse succeeds: contactId is a non-empty string
ChatValid(body) == body.contactId # NULL

\* messageValidationSchema.parse succeeds
MessageValid(body) == body.chatId # NULL /\ Len(body.content) >= 1

LowerChar(c) ==
  CASE c = "A" -> "a"
    [] c = "B" -> "b"
    [] c = "X" -> "x"
    [] OTHER -> c

\* the email path's setters: lowercase (trim leaves a validated email as it is)
Lower(e) == [i \in DOMAIN e |-> LowerChar(e[i])]

\* the name path's setter: trim
RECURSIVE Trim(_)
Trim(q) ==
  IF q = <<>> THEN q
  ELSE IF Head(q) = " " THEN Trim(Tail(q))
  ELSE IF q[Len(q)] = " " THEN Trim(SubSeq(q, 1, Len(q) - 1))
  ELSE q

\* the chatId path's setter: trim; what is left of a blank chatId is the empty
\* string, which is falsy
TrimId(chatId) == IF chatId = BlankChatId THEN NULL ELSE chatId

\* a hook that provisions a chat after every save
NeedsChatAlways(doc) == TRUE

\* a hook that never provisions
NeedsChatNever(doc) == FALSE

\* post('save'): if (!doc.chatId)
NeedsChat(doc) == doc.chatId = NULL

\* save() validates the document before it writes: name is required, and a
\* required string must not be empty
Persistable(d) == d.name # <<>>

Body(name, email, phone, chatId) ==
  [name |-> name, email |-> email, phone |-> phone, chatId |-> chatId]

\* request bodies of POST /contacts and PUT /contacts/:id that the schema accepts
ValidContactBodies ==
  {Body(Ana, MailA, Phone9, NULL), Body(Ana, MailAUpper, Phone9, NULL),
   Body(Bob, MailB, Phone9, NULL), Body(Bob, MailB, Phone9, 1),
   Body(Blank, MailB, Phone9, NULL), Body(Bob, MailB, Phone9, BlankChatId)}

\* the ones the overlapping requests carry: no chatId and a name that persists
RaceBodies == {b \in ValidContactBodies : b.chatId = NULL /\ Trim(b.name) # <<>>}

\* and one body per field that it rejects
ContactBodies ==
  ValidContactBodies
  \cup {Body(<<"A">>, MailA, Phone9, NULL), Body(Ana, NoMail, Phone9, NULL),
        Body(Ana, MailA, Phone10, NULL)}

\* ------------------------------------------------------------------ store operations

Remove(coll, id) == [i \in DOMAIN coll \ {id} |-> coll[i]]

\* a lookup that compares the email as it was sent
FindContactByEmailRaw(email) ==
  {c \in DOMAIN contacts : contacts[c].email = email}

\* Contact.findOne({ email }): the filter is cast by the email path's setters
FindContactByEmail(email) ==
  {c \in DOMAIN contacts : contacts[c].email = Lower(email)}

\* a lookup that never finds the contact's chat
FindChatByContactBlind(contactId) == {}

\* Chat.findOne({ contactId })
FindChatByContact(contactId) ==
  {c \in DOMAIN chats : chats[c].contactId = contactId}

\* a collection without the unique index
NoUniqueIndex(id, email) == FALSE

\* the unique index on Contact.email rejects a write that would give contact
\* `id` an email another contact holds
DuplicateKey(id, email) ==
  \E c \in DOMAIN contacts : c # id /\ contacts[c].email = email

\* timestamps / pre('save'): the chat becomes the most recently updated one
\* a save that leaves updatedAt of a stored chat as it is
TouchOnCreate(order, id) ==
  IF \E i \in DOMAIN order : order[i] = id THEN order ELSE Append(order, id)

\* this.updatedAt = new Date() before every save: the chat becomes the latest
Touch(order, id) == Append(SelectSeq(order, LAMBDA x : x # id), id)

Forget(order, id) == SelectSeq(order, LAMBDA x : x # id)

\* new Chat({ contactId, messageIds: [], lastMessage: null, unreadCount: 0, isArchived: false })
NewChat(contactId) ==
  [contactId |-> contactId, messageIds |-> <<>>, lastMessage |-> NULL,
   unreadCount |-> 0, isArchived |-> FALSE]

\* ------------------------------------------------------------------ requests

Idle ==
  [op |-> "none", pc |-> "idle", status |-> 0, in |-> <<>>, doc |-> <<>>, res |-> <<>>]

InFlight(s) == req[s].pc \notin {"idle", "done"}

\* a connection carries one request at a time
CanStart(s) == ~InFlight(s)

NoneInFlight == \A s \in Slots : ~InFlight(s)

MayFail == failures < MaxFailures

Snapshot ==
  [contacts |-> contacts, chats |-> chats, messages |-> messages, failures |-> failures,
   order |-> updatedOrder]

\* the handler returns: status and the part of the body the properties read
\* connection 1 keeps its last request and response for the properties to read;
\* the other connections run the same handlers and forget theirs
Respond(s, r, status, res) ==
  IF s = 1 THEN [r EXCEPT !.pc = "done", !.status = status, !.res = res, !.doc = <<>>]
  ELSE Idle

Begin(op, in) ==
  [op |-> op, pc |-> "start", status |-> 0, in |-> in, doc |-> <<>>, res |-> <<>>]

\* a request arrives on connection s
Arrives(s) ==
  /\ CanStart(s)
  /\ before' = IF NoneInFlight THEN Snapshot ELSE <<>>
  /\ overlapped' = (overlapped \/ ~NoneInFlight)

Init ==
  /\ contacts = <<>>
  /\ chats = <<>>
  /\ messages = <<>>
  /\ updatedOrder = <<>>
  /\ nextId = [contact |-> 1, chat |-> 1, message |-> 1]
  /\ req = [s \in Slots |-> Idle]
  /\ failures = 0
  /\ unreadSince = <<>>
  /\ sinceReadStart = [c \in ChatIds |-> 0]
  /\ before = <<>>
  /\ overlapped = FALSE

\* ------------------------------------------------------------------ POST /contacts

\* parse, then Contact.findOne({ email }); a ZodError is caught: 400
PostContactLookup(s, body) ==
  /\ Arrives(s)
  /\ LET r == Begin("PostContact", body) IN
     req' = [req EXCEPT ![s] =
       IF ~ContactValid(body) THEN Respond(s, r, 400, [error |-> "validation"])
       ELSE IF FindContactByEmail(body.email) # {}
         THEN Respond(s, r, 409, [error |-> "duplicate", email |-> body.email])
       ELSE [r EXCEPT !.pc = "insert",
                      !.doc = [id |-> NULL, name |-> Trim(body.name), email |-> Lower(body.email),
                               phone |-> body.phone, chatId |-> TrimId(body.chatId)]]]
  /\ UNCHANGED <<contacts, chats, messages, updatedOrder, nextId, failures, unreadSince, sinceReadStart>>

\* newContact.save(): the insert; then post('save') decides whether a chat is needed
PostContactInsert(s) ==
  /\ req[s].op = "PostContact" /\ req[s].pc = "insert"
  /\ nextId.contact <= MaxContacts
  /\ LET r == req[s]
         id == nextId.contact
         d == [r.doc EXCEPT !.id = id] IN
     IF ~Persistable(d)
     THEN /\ req' = [req EXCEPT ![s] = Respond(s, r, 400, [error |-> "ValidationError"])]
          /\ UNCHANGED <<contacts, nextId, before, overlapped>>
     ELSE IF DuplicateKey(id, d.email)
     THEN /\ req' = [req EXCEPT ![s] = Respond(s, r, 400, [error |-> "E11000"])]
          /\ UNCHANGED <<contacts, nextId, before, overlapped>>
     ELSE /\ contacts' = contacts @@ (id :> [name |-> d.name, email |-> d.email,
                                             phone |-> d.phone, chatId |-> d.chatId])
          /\ nextId' = [nextId EXCEPT !.contact = id + 1]
          /\ req' = [req EXCEPT ![s] =
               IF NeedsChat(d) THEN [r EXCEPT !.pc = "hookChat", !.doc = d]
               ELSE Respond(s, [r EXCEPT !.doc = d], 201, [id |-> id, chatId |-> d.chatId])]
  /\ UNCHANGED <<chats, messages, updatedOrder, failures, unreadSince, before, overlapped, sinceReadStart>>

\* the store rejects newContact.save(): caught, 400
PostContactInsertFails(s) ==
  /\ req[s].op = "PostContact" /\ req[s].pc = "insert"
  /\ MayFail
  /\ failures' = failures + 1
  /\ req' = [req EXCEPT ![s] = Respond(s, req[s], 400, [error |-> "store"])]
  /\ UNCHANGED <<contacts, chats, messages, updatedOrder, nextId, unreadSince, before, overlapped, sinceReadStart>>

\* post('save'): chat.save() of the new Chat
HookChatInsert(s) ==
  /\ req[s].pc = "hookChat"
  /\ nextId.chat <= MaxChats
  /\ LET r == req[s]
         id == nextId.chat IN
     /\ chats' = chats @@ (id :> NewChat(r.doc.id))
     /\ updatedOrder' = Touch(updatedOrder, id)
     /\ unreadSince' = unreadSince @@ (id :> 0)
     /\ nextId' = [nextId EXCEPT !.chat = id + 1]
     /\ req' = [req EXCEPT ![s] = [r EXCEPT !.pc = "hookLink", !.doc.chatId = id]]
  /\ UNCHANGED <<contacts, messages, failures, before, overlapped, sinceReadStart>>

\* a hook that creates the chat and never writes its id back
LinkedContactUnsaved(cur, chatId) == cur

\* doc.chatId = chat._id.toString(); doc.save(): chatId is the modified path
LinkedContact(cur, chatId) == [cur EXCEPT !.chatId = chatId]

\* post('save'): doc.save() writes chatId back onto the contact
HookLink(s) ==
  /\ req[s].pc = "hookLink"
  /\ LET r == req[s]
         ok == IF r.op = "PostContact" THEN 201 ELSE 200
         ko == IF r.op = "PostContact" THEN 400 ELSE 500 IN
     IF r.doc.id \in DOMAIN contacts
     THEN /\ contacts' = [contacts EXCEPT ![r.doc.id] = LinkedContact(@, r.doc.chatId)]
          /\ req' = [req EXCEPT ![s] = Respond(s, r, ok, [id |-> r.doc.id, chatId |-> r.doc.chatId])]
     ELSE /\ req' = [req EXCEPT ![s] = Respond(s, r, ko, [error |-> "DocumentNotFound"])]
          /\ UNCHANGED contacts
  /\ UNCHANGED <<chats, messages, updatedOrder, nextId, failures, unreadSince, before, overlapped, sinceReadStart>>

\* a failing hook that takes the contact back
HookFailsRollingBack(s) ==
  /\ req[s].pc \in {"hookChat", "hookLink"}
  /\ MayFail
  /\ failures' = failures + 1
  /\ contacts' = Remove(contacts, req[s].doc.id)
  /\ req' = [req EXCEPT ![s] =
       Respond(s, req[s], IF req[s].op = "PostContact" THEN 400 ELSE 500, [error |-> "store"])]
  /\ UNCHANGED <<chats, messages, updatedOrder, nextId, unreadSince, before, overlapped, sinceReadStart>>

\* the store rejects a write of the post('save') hook: save() rejects, and the
\* handler's catch (POST) or the framework (PUT) answers
HookFails(s) ==
  /\ req[s].pc \in {"hookChat", "hookLink"}
  /\ MayFail
  /\ failures' = failures + 1
  /\ req' = [req EXCEPT ![s] =
       Respond(s, req[s], IF req[s].op = "PostContact" THEN 400 ELSE 500, [error |-> "store"])]
  /\ UNCHANGED <<contacts, chats, messages, updatedOrder, nextId, unreadSince, before, overlapped, sinceReadStart>>

\* ------------------------------------------------------------------ GET /contacts, GET /contacts/:id

\* Contact.find().sort({ createdAt: -1 }): ids are allocated in creation order
RECURSIVE Descending(_)
Descending(S) ==
  IF S = {} THEN <<>>
  ELSE LET m == CHOOSE x \in S : \A y \in S : y <= x IN <<m>> \o Descending(S \ {m})

GetContacts(s) ==
  /\ Arrives(s)
  /\ req' = [req EXCEPT ![s] =
       Respond(s, Begin("GetContacts", <<>>), 200, [data |-> Descending(DOMAIN contacts)])]
  /\ UNCHANGED <<contacts, chats, messages, updatedOrder, nextId, failures, unreadSince, sinceReadStart>>

\* Contact.findById(params.id), returned as it is: null when nothing is found,
\* no status is set; a CastError reaches the framework: 500
GetContact(s, id) ==
  /\ Arrives(s)
  /\ LET r == Begin("GetContact", [id |-> id]) IN
     req' = [req EXCEPT ![s] =
       IF ~IsObjectId(id) THEN Respond(s, r, 500, [error |-> "CastError"])
       ELSE IF id \notin DOMAIN contacts THEN Respond(s, r, 200, [found |-> FALSE])
       ELSE Respond(s, r, 200, [found |-> TRUE, contact |-> contacts[id]])]
  /\ UNCHANGED <<contacts, chats, messages, updatedOrder, nextId, failures, unreadSince, sinceReadStart>>

\* ------------------------------------------------------------------ PUT /contacts/:id

\* parse, then Contact.findById; nothing is caught here: a ZodError or a
\* CastError reaches the framework (500); a missing contact is answered with
\* an error object and no status
PutContactLoad(s, id, body) ==
  /\ Arrives(s)
  /\ LET r == Begin("PutContact", [id |-> id, body |-> body]) IN
     req' = [req EXCEPT ![s] =
       IF ~ContactValid(body) THEN Respond(s, r, 500, [error |-> "validation"])
       ELSE IF ~IsObjectId(id) THEN Respond(s, r, 500, [error |-> "CastError"])
       ELSE IF id \notin DOMAIN contacts THEN Respond(s, r, 200, [error |-> "notFound", id |-> id])
       ELSE [r EXCEPT !.pc = "putSave",
                      !.doc = [id |-> id, loaded |-> contacts[id], name |-> Trim(body.name),
                               email |-> Lower(body.email), phone |-> body.phone,
                               chatId |-> contacts[id].chatId]]]
  /\ UNCHANGED <<contacts, chats, messages, updatedOrder, nextId, failures, unreadSince, sinceReadStart>>

\* the paths of d that differ from the loaded document are written to cur
ApplyModified(cur, d) ==
  [cur EXCEPT !.name = IF d.name # d.loaded.name THEN d.name ELSE @,
              !.email = IF d.email # d.loaded.email THEN d.email ELSE @,
              !.phone = IF d.phone # d.loaded.phone THEN d.phone ELSE @]

\* contact.save(): the update; then post('save') decides whether a chat is needed
PutContactSave(s) ==
  /\ req[s].pc = "putSave"
  /\ LET r == req[s]
         d == r.doc IN
     IF d.id \notin DOMAIN contacts
     THEN /\ req' = [req EXCEPT ![s] = Respond(s, r, 500, [error |-> "DocumentNotFound"])]
          /\ UNCHANGED contacts
     ELSE IF ~Persistable(d)
     THEN /\ req' = [req EXCEPT ![s] = Respond(s, r, 500, [error |-> "ValidationError"])]
          /\ UNCHANGED contacts
     ELSE IF d.email # d.loaded.email /\ DuplicateKey(d.id, d.email)
     THEN /\ req' = [req EXCEPT ![s] = Respond(s, r, 500, [error |-> "E11000"])]
          /\ UNCHANGED contacts
     ELSE /\ contacts' = [contacts EXCEPT ![d.id] = ApplyModified(@, d)]
          /\ req' = [req EXCEPT ![s] =
               IF NeedsChat(d) THEN [r EXCEPT !.pc = "hookChat"]
               ELSE Respond(s, r, 200, [id |-> d.id, chatId |-> d.chatId])]
  /\ UNCHANGED <<chats, messages, updatedOrder, nextId, failures, unreadSince, before, overlapped, sinceReadStart>>

\* the store rejects contact.save(): 500
PutContactSaveFails(s) ==
  /\ req[s].pc = "putSave"
  /\ MayFail
  /\ failures' = failures + 1
  /\ req' = [req EXCEPT ![s] = Respond(s, req[s], 500, [error |-> "store"])]
  /\ UNCHANGED <<contacts, chats, messages, updatedOrder, nextId, unreadSince, before, overlapped, sinceReadStart>>

\* ------------------------------------------------------------------ DELETE /contacts/:id

\* Contact.findByIdAndDelete(params.id); no status is set on any path
\* a delete that takes the contact's chats with it
DeleteContactCascading(s, id) ==
  /\ Arrives(s)
  /\ LET r == Begin("DeleteContact", [id |-> id])
         kept == {c \in DOMAIN chats : chats[c].contactId # id} IN
     IF id \notin DOMAIN contacts
     THEN /\ req' = [req EXCEPT ![s] = Respond(s, r, 200, [error |-> "notFound", id |-> id])]
          /\ UNCHANGED <<contacts, chats, updatedOrder, unreadSince>>
     ELSE /\ contacts' = Remove(contacts, id)
          /\ chats' = [c \in kept |-> chats[c]]
          /\ updatedOrder' = SelectSeq(updatedOrder, LAMBDA c : c \in kept)
          /\ unreadSince' = [c \in kept |-> unreadSince[c]]
          /\ req' = [req EXCEPT ![s] = Respond(s, r, 200, [id |-> id])]
  /\ UNCHANGED <<messages, nextId, failures, sinceReadStart>>

\* Contact.findByIdAndDelete(params.id): a missing contact is answered with an
\* error object and no status; a CastError reaches the framework: 500
DeleteContact(s, id) ==
  /\ Arrives(s)
  /\ LET r == Begin("DeleteContact", [id |-> id]) IN
     IF ~IsObjectId(id)
     THEN /\ req' = [req EXCEPT ![s] = Respond(s, r, 500, [error |-> "CastError"])]
          /\ UNCHANGED contacts
     ELSE IF id \notin DOMAIN contacts
     THEN /\ req' = [req EXCEPT ![s] = Respond(s, r, 200, [error |-> "notFound", id |-> id])]
          /\ UNCHANGED contacts
     ELSE /\ contacts' = Remove(contacts, id)
          /\ req' = [req EXCEPT ![s] = Respond(s, r, 200, [id |-> id])]
  /\ UNCHANGED <<chats, messages, updatedOrder, nextId, failures, unreadSince, sinceReadStart>>

\* ------------------------------------------------------------------ POST /chats

ChatBodies ==
  [contactId : {NULL, BadId} \cup ContactIds, messageIds : {<<>>}]
  \cup [contactId : ContactIds, messageIds : {<<1>>}]

\* parse (a ZodError is answered 400), then Contact.findById(contactId); a
\* CastError is caught by the outer catch: 400
PostChatFindContact(s, body) ==
  /\ Arrives(s)
  /\ LET r == Begin("PostChat", body) IN
     req' = [req EXCEPT ![s] =
       IF ~ChatValid(body) THEN Respond(s, r, 400, [error |-> "validation"])
       ELSE IF ~IsObjectId(body.contactId) THEN Respond(s, r, 400, [error |-> "CastError"])
       ELSE IF body.contactId \notin DOMAIN contacts
         THEN Respond(s, r, 404, [error |-> "notFound", contactId |-> body.contactId])
       ELSE [r EXCEPT !.pc = "chatFind"]]
  /\ UNCHANGED <<contacts, chats, messages, updatedOrder, nextId, failures, unreadSince, sinceReadStart>>

\* Chat.findOne({ contactId })
PostChatFindChat(s) ==
  /\ req[s].pc = "chatFind"
  /\ LET r == req[s]
         found == FindChatByContact(r.in.contactId) IN
     req' = [req EXCEPT ![s] =
       IF found # {}
       THEN Respond(s, r, 409, [error |-> "duplicate", chatId |-> CHOOSE c \in found : TRUE])
       ELSE [r EXCEPT !.pc = "chatInsert"]]
  /\ UNCHANGED <<contacts, chats, messages, updatedOrder, nextId, failures, unreadSince, before, overlapped, sinceReadStart>>

\* a chat built from the body as it was sent
ChatFromBodyKeepingIds(body) == [NewChat(body.contactId) EXCEPT !.messageIds = body.messageIds]

\* new Chat({ ...chatData, messageIds: [], unreadCount: 0, isArchived: false }):
\* the body's messageIds are overridden, lastMessage takes its default
ChatFromBody(body) == NewChat(body.contactId)

\* newChat.save(), then populate('contactId') for the response
PostChatInsert(s) ==
  /\ req[s].pc = "chatInsert"
  /\ nextId.chat <= MaxChats
  /\ LET r == req[s]
         id == nextId.chat IN
     /\ chats' = chats @@ (id :> ChatFromBody(r.in))
     /\ updatedOrder' = Touch(updatedOrder, id)
     /\ unreadSince' = unreadSince @@ (id :> 0)
     /\ nextId' = [nextId EXCEPT !.chat = id + 1]
     /\ req' = [req EXCEPT ![s] = Respond(s, r, 201, [id |-> id])]
  /\ UNCHANGED <<contacts, messages, failures, before, overlapped, sinceReadStart>>

\* the store rejects newChat.save(): caught, 400
PostChatInsertFails(s) ==
  /\ req[s].pc = "chatInsert"
  /\ MayFail
  /\ failures' = failures + 1
  /\ req' = [req EXCEPT ![s] = Respond(s, req[s], 400, [error |-> "store"])]
  /\ UNCHANGED <<contacts, chats, messages, updatedOrder, nextId, unreadSince, before, overlapped, sinceReadStart>>

\* ------------------------------------------------------------------ DELETE /chats/:id

\* Chat.findByIdAndDelete(params.id); a CastError is caught: 500
\* a delete that takes the chat's messages with it
DeleteChatCascading(s, id) ==
  /\ Arrives(s)
  /\ LET r == Begin("DeleteChat", [id |-> id]) IN
     IF id \notin DOMAIN chats
     THEN /\ req' = [req EXCEPT ![s] = Respond(s, r, 404, [error |-> "notFound", id |-> id])]
          /\ UNCHANGED <<chats, messages, updatedOrder, unreadSince>>
     ELSE /\ chats' = Remove(chats, id)
          /\ messages' = [m \in {x \in DOMAIN messages : messages[x].chatId # id} |-> messages[m]]
          /\ updatedOrder' = Forget(updatedOrder, id)
          /\ unreadSince' = Remove(unreadSince, id)
          /\ req' = [req EXCEPT ![s] = Respond(s, r, 200, [id |-> id])]
  /\ UNCHANGED <<contacts, nextId, failures, sinceReadStart>>

DeleteChat(s, id) ==
  /\ Arrives(s)
  /\ LET r == Begin("DeleteChat", [id |-> id]) IN
     IF ~IsObjectId(id)
     THEN /\ req' = [req EXCEPT ![s] = Respond(s, r, 500, [error |-> "CastError"])]
          /\ UNCHANGED <<chats, updatedOrder, unreadSince>>
     ELSE IF id \notin DOMAIN chats
     THEN /\ req' = [req EXCEPT ![s] = Respond(s, r, 404, [error |-> "notFound", id |-> id])]
          /\ UNCHANGED <<chats, updatedOrder, unreadSince>>
     ELSE /\ chats' = Remove(chats, id)
          /\ updatedOrder' = Forget(updatedOrder, id)
          /\ unreadSince' = Remove(unreadSince, id)
          /\ req' = [req EXCEPT ![s] = Respond(s, r, 200, [id |-> id])]
  /\ UNCHANGED <<contacts, messages, nextId, failures, sinceReadStart>>

\* ------------------------------------------------------------------ GET /chats, GET /chats/:id

PopulateLimit == 50

Reverse(q) == [i \in 1..Len(q) |-> q[Len(q) + 1 - i]]

\* a populate without the limit
TakeAll(q, n) == q

Take(q, n) == SubSeq(q, 1, IF Len(q) < n THEN Len(q) ELSE n)

\* populate of a single reference: the document, or null when it is gone
Populate(coll, id) == IF id \in DOMAIN coll THEN [id |-> id, doc |-> coll[id]] ELSE NULL

\* populate({ path: 'messageIds', options: { sort: { createdAt: -1 }, limit: 50 } }):
\* the referenced Messages that exist, newest first (ids are allocated in
\* creation order), at most 50
PopulateMessages(ids) ==
  Take(Descending({ids[i] : i \in DOMAIN ids} \cap DOMAIN messages), PopulateLimit)

\* a listing that marks every chat as read
GetChatsMarkingRead(s) ==
  /\ Arrives(s)
  /\ chats' = [c \in DOMAIN chats |-> [chats[c] EXCEPT !.unreadCount = 0]]
  /\ req' = [req EXCEPT ![s] = Respond(s, Begin("GetChats", <<>>), 200, [data |-> <<>>])]
  /\ UNCHANGED <<contacts, messages, updatedOrder, nextId, failures, unreadSince, sinceReadStart>>

\* Chat.find().sort({ updatedAt: -1 }).populate('contactId').populate('lastMessage')
GetChats(s) ==
  /\ Arrives(s)
  /\ LET shown(c) == [id |-> c, contact |-> Populate(contacts, chats[c].contactId),
                      lastMessage |-> Populate(messages, chats[c].lastMessage),
                      unreadCount |-> chats[c].unreadCount]
         order == Reverse(updatedOrder) IN
     req' = [req EXCEPT ![s] =
       Respond(s, Begin("GetChats", <<>>), 200,
               [data |-> [i \in DOMAIN order |-> shown(order[i])]])]
  /\ UNCHANGED <<contacts, chats, messages, updatedOrder, nextId, failures, unreadSince, sinceReadStart>>

\* what GET /chats/:id returns: chat.toObject() after the reset, with the
\* populated references
ChatView(id, chat, populated) ==
  [id |-> id, unreadCount |-> chat.unreadCount, contact |-> populated.contact,
   messages |-> populated.messages]

\* a read that saves the chat whatever its counter
UnreadAlways(chat) == TRUE

\* if (chat.unreadCount > 0)
Unread(chat) == chat.unreadCount > 0

\* a read that leaves one message unread
MarkReadToOne(chat) == [chat EXCEPT !.unreadCount = 1]

\* a read that leaves the counter as loaded
MarkReadKeeps(chat) == chat

\* chat.unreadCount = 0 on the loaded document
MarkRead(chat) == [chat EXCEPT !.unreadCount = 0]

\* Chat.findById(params.id) with its populates; the counter is reset on the
\* loaded document before the response is built
GetChatLoad(s, id) ==
  /\ Arrives(s)
  /\ LET r == Begin("GetChat", [id |-> id]) IN
     IF ~IsObjectId(id)
     THEN /\ req' = [req EXCEPT ![s] = Respond(s, r, 500, [error |-> "CastError"])]
          /\ UNCHANGED unreadSince
     ELSE IF id \notin DOMAIN chats
     THEN /\ req' = [req EXCEPT ![s] = Respond(s, r, 404, [error |-> "notFound", id |-> id])]
          /\ UNCHANGED unreadSince
     ELSE LET populated == [contact |-> Populate(contacts, chats[id].contactId),
                            messages |-> PopulateMessages(chats[id].messageIds)] IN
          IF Unread(chats[id])
          THEN /\ req' = [req EXCEPT ![s] =
                    [r EXCEPT !.pc = "readSave",
                              !.doc = [id |-> id, chat |-> MarkRead(chats[id]),
                                       populated |-> populated]]]
               /\ UNCHANGED unreadSince
          ELSE /\ req' = [req EXCEPT ![s] = Respond(s, r, 200, ChatView(id, chats[id], populated))]
               /\ unreadSince' = [unreadSince EXCEPT ![id] = 0]
  /\ UNCHANGED <<contacts, chats, messages, updatedOrder, nextId, failures>>
  /\ sinceReadStart' = IF id \in DOMAIN chats THEN [sinceReadStart EXCEPT ![id] = 0]
                       ELSE sinceReadStart

\* a save that writes the populated messageIds of GET /chats/:id back
ReadSaveStoringPopulated(s) ==
  /\ req[s].pc = "readSave"
  /\ req[s].doc.id \in DOMAIN chats
  /\ LET r == req[s]
         id == r.doc.id IN
     /\ chats' = [chats EXCEPT ![id].unreadCount = r.doc.chat.unreadCount,
                               ![id].messageIds =
                                 IF r.op = "GetChat" THEN r.doc.populated.messages ELSE @]
     /\ updatedOrder' = Touch(updatedOrder, id)
     /\ unreadSince' = [unreadSince EXCEPT ![id] = 0]
     /\ req' = [req EXCEPT ![s] = Respond(s, r, 200, [chatId |-> id, data |-> <<>>])]
  /\ UNCHANGED <<contacts, messages, nextId, failures, before, overlapped, sinceReadStart>>

\* chat.save() after chat.unreadCount = 0 (GET /chats/:id and
\* GET /messages/chat/:chatId): only unreadCount was modified
ReadSave(s) ==
  /\ req[s].pc = "readSave"
  /\ LET r == req[s]
         id == r.doc.id IN
     IF id \notin DOMAIN chats
     THEN /\ req' = [req EXCEPT ![s] = Respond(s, r, 500, [error |-> "DocumentNotFound"])]
          /\ UNCHANGED <<chats, updatedOrder, unreadSince>>
     ELSE /\ chats' = [chats EXCEPT ![id].unreadCount = r.doc.chat.unreadCount]
          /\ updatedOrder' = Touch(updatedOrder, id)
          /\ unreadSince' = [unreadSince EXCEPT ![id] = 0]
          /\ req' = [req EXCEPT ![s] =
               Respond(s, r, 200,
                 IF r.op = "GetChat" THEN ChatView(id, r.doc.chat, r.doc.populated)
                 ELSE [chatId |-> id, data |-> r.doc.found])]
  /\ UNCHANGED <<contacts, messages, nextId, failures, before, overlapped, sinceReadStart>>

\* the store rejects that chat.save(): caught, 500
ReadSaveFails(s) ==
  /\ req[s].pc = "readSave"
  /\ MayFail
  /\ failures' = failures + 1
  /\ req' = [req EXCEPT ![s] = Respond(s, req[s], 500, [error |-> "store"])]
  /\ UNCHANGED <<contacts, chats, messages, updatedOrder, nextId, unreadSince, before, overlapped, sinceReadStart>>

\* ------------------------------------------------------------------ POST /messages

MessageBodies ==
  [chatId : {NULL, BadId} \cup ChatIds, content : {Hi}]
  \cup [chatId : ChatIds, content : {<<>>}]

\* details that do not name the id
MessageChatNotFoundBare(body) == [error |-> "notFound", chatId |-> NULL]

\* { error: 'Chat no encontrado', details: { chatId: messageData.chatId } }
MessageChatNotFound(body) == [error |-> "notFound", chatId |-> body.chatId]

\* parse, then Chat.findById(chatId); a ZodError or a CastError is caught: 400
PostMessageFindChat(s, body) ==
  /\ Arrives(s)
  /\ LET r == Begin("PostMessage", body) IN
     req' = [req EXCEPT ![s] =
       IF ~MessageValid(body) THEN Respond(s, r, 400, [error |-> "validation"])
       ELSE IF ~IsObjectId(body.chatId) THEN Respond(s, r, 400, [error |-> "CastError"])
       ELSE IF body.chatId \notin DOMAIN chats
         THEN Respond(s, r, 404, MessageChatNotFound(body))
       ELSE [r EXCEPT !.pc = "messageInsert",
                      !.doc = [id |-> body.chatId, chat |-> chats[body.chatId], message |-> NULL]]]
  /\ UNCHANGED <<contacts, chats, messages, updatedOrder, nextId, failures, unreadSince, sinceReadStart>>

\* the same without the increment
WithNewMessageUncounted(chat, id) ==
  [chat EXCEPT !.messageIds = Append(@, id), !.lastMessage = id]

\* chat.messageIds.push(id); chat.lastMessage = id; chat.unreadCount += 1 on
\* the loaded document
WithNewMessage(chat, id) ==
  [chat EXCEPT !.messageIds = Append(@, id), !.lastMessage = id, !.unreadCount = @ + 1]

\* newMessage.save(); then the loaded chat is changed in memory
PostMessageInsert(s) ==
  /\ req[s].pc = "messageInsert"
  /\ nextId.message <= MaxMessages
  /\ LET r == req[s]
         id == nextId.message IN
     /\ messages' = messages @@ (id :> [chatId |-> r.in.chatId, content |-> r.in.content])
     /\ nextId' = [nextId EXCEPT !.message = id + 1]
     /\ req' = [req EXCEPT ![s] =
          [r EXCEPT !.pc = "messageLink", !.doc.message = id,
                    !.doc.chat = WithNewMessage(@, id)]]
  /\ UNCHANGED <<contacts, chats, updatedOrder, failures, unreadSince, before, overlapped>>
  /\ sinceReadStart' = [sinceReadStart EXCEPT ![req[s].in.chatId] = @ + 1]

\* the store rejects newMessage.save(): caught, 400
PostMessageInsertFails(s) ==
  /\ req[s].pc = "messageInsert"
  /\ MayFail
  /\ failures' = failures + 1
  /\ req' = [req EXCEPT ![s] = Respond(s, req[s], 400, [error |-> "store"])]
  /\ UNCHANGED <<contacts, chats, messages, updatedOrder, nextId, unreadSince, before, overlapped, sinceReadStart>>

\* a save that increments the stored counter in the store ($inc)
SaveChatAfterMessageCounting(cur, d) ==
  [cur EXCEPT !.messageIds = Append(@, d.message),
              !.lastMessage = d.chat.lastMessage,
              !.unreadCount = @ + 1]

\* a save that writes the loaded document whole, messageIds included
SaveChatAfterMessageWhole(cur, d) == d.chat

\* a save that leaves the pushed id out
SaveChatAfterMessageUnlisted(cur, d) ==
  [cur EXCEPT !.lastMessage = d.chat.lastMessage, !.unreadCount = d.chat.unreadCount]

\* a save that leaves lastMessage out
SaveChatAfterMessageKeepingLast(cur, d) ==
  [cur EXCEPT !.messageIds = Append(@, d.message), !.unreadCount = d.chat.unreadCount]

\* chat.save(): the pushed id goes out as $push, lastMessage and unreadCount
\* as $set of the values computed from the loaded document
SaveChatAfterMessage(cur, d) ==
  [cur EXCEPT !.messageIds = Append(@, d.message),
              !.lastMessage = d.chat.lastMessage,
              !.unreadCount = d.chat.unreadCount]

PostMessageLink(s) ==
  /\ req[s].pc = "messageLink"
  /\ LET r == req[s]
         id == r.doc.id IN
     IF id \notin DOMAIN chats
     THEN /\ req' = [req EXCEPT ![s] = Respond(s, r, 400, [error |-> "DocumentNotFound"])]
          /\ UNCHANGED <<chats, updatedOrder, unreadSince>>
     ELSE /\ chats' = [chats EXCEPT ![id] = SaveChatAfterMessage(@, r.doc)]
          /\ updatedOrder' = Touch(updatedOrder, id)
          /\ unreadSince' = [unreadSince EXCEPT ![id] = @ + 1]
          /\ req' = [req EXCEPT ![s] = Respond(s, r, 201, [id |-> r.doc.message])]
  /\ UNCHANGED <<contacts, messages, nextId, failures, before, overlapped, sinceReadStart>>

\* a failing chat write that takes the Message back
PostMessageLinkFailsRollingBack(s) ==
  /\ req[s].pc = "messageLink"
  /\ MayFail
  /\ failures' = failures + 1
  /\ messages' = Remove(messages, req[s].doc.message)
  /\ req' = [req EXCEPT ![s] = Respond(s, req[s], 400, [error |-> "store"])]
  /\ UNCHANGED <<contacts, chats, updatedOrder, nextId, unreadSince, before, overlapped, sinceReadStart>>

\* the store rejects chat.save() after the Message was saved: caught, 400
PostMessageLinkFails(s) ==
  /\ req[s].pc = "messageLink"
  /\ MayFail
  /\ failures' = failures + 1
  /\ req' = [req EXCEPT ![s] = Respond(s, req[s], 400, [error |-> "store"])]
  /\ UNCHANGED <<contacts, chats, messages, updatedOrder, nextId, unreadSince, before, overlapped, sinceReadStart>>

\* ------------------------------------------------------------------ GET /messages/chat/:chatId

\* a listing sorted the other way
NewestFirst(S) == Descending(S)

RECURSIVE Ascending(_)
Ascending(S) ==
  IF S = {} THEN <<>>
  ELSE LET m == CHOOSE x \in S : \A y \in S : x <= y IN <<m>> \o Ascending(S \ {m})

\* Chat.findById(chatId); a CastError is caught: 500
GetMessagesFindChat(s, id) ==
  /\ Arrives(s)
  /\ LET r == Begin("GetMessages", [id |-> id]) IN
     req' = [req EXCEPT ![s] =
       IF ~IsObjectId(id) THEN Respond(s, r, 500, [error |-> "CastError"])
       ELSE IF id \notin DOMAIN chats
         THEN Respond(s, r, 404, [error |-> "notFound", chatId |-> id])
       ELSE [r EXCEPT !.pc = "messagesFind",
                      !.doc = [id |-> id, chat |-> chats[id], found |-> <<>>]]]
  /\ UNCHANGED <<contacts, chats, messages, updatedOrder, nextId, failures, unreadSince>>
  /\ sinceReadStart' = IF id \in DOMAIN chats THEN [sinceReadStart EXCEPT ![id] = 0]
                       ELSE sinceReadStart

\* Message.find({ chatId }).sort({ createdAt: 1 }); then the counter of the
\* loaded chat is reset when it was positive
GetMessagesFind(s) ==
  /\ req[s].pc = "messagesFind"
  /\ LET r == req[s]
         id == r.doc.id
         found == Ascending({m \in DOMAIN messages : messages[m].chatId = id}) IN
     IF Unread(r.doc.chat)
     THEN /\ req' = [req EXCEPT ![s] =
               [r EXCEPT !.pc = "readSave", !.doc.found = found, !.doc.chat = MarkRead(@)]]
          /\ UNCHANGED unreadSince
     ELSE /\ req' = [req EXCEPT ![s] = Respond(s, r, 200, [chatId |-> id, data |-> found])]
          /\ unreadSince' = [c \in DOMAIN unreadSince |-> IF c = id THEN 0 ELSE unreadSince[c]]
  /\ UNCHANGED <<contacts, chats, messages, updatedOrder, nextId, failures, before, overlapped, sinceReadStart>>

\* ------------------------------------------------------------------ specification

IdInputs(ids) == ids \cup {BadId}

PostContactSteps(s) ==
  \/ PostContactInsert(s)
  \/ HookChatInsert(s)
  \/ HookLink(s)

PutContactSteps(s) ==
  \/ PutContactSave(s)

ContactFailures(s) ==
  \/ PostContactInsertFails(s)
  \/ HookFails(s)
  \/ PutContactSaveFails(s)

ContactWrites(s) ==
  \/ \E body \in ContactBodies : PostContactLookup(s, body)
  \/ PostContactSteps(s)
  \/ \E id \in IdInputs(ContactIds), body \in ContactBodies : PutContactLoad(s, id, body)
  \/ PutContactSteps(s)
  \/ \E id \in IdInputs(ContactIds) : DeleteContact(s, id)

ContactReads(s) ==
  \/ GetContacts(s)
  \/ \E id \in IdInputs(ContactIds) : GetContact(s, id)

ChatWrites(s) ==
  \/ \E body \in ChatBodies : PostChatFindContact(s, body)
  \/ PostChatFindChat(s)
  \/ PostChatInsert(s)
  \/ \E id \in IdInputs(ChatIds) : DeleteChat(s, id)

ChatReads(s) ==
  \/ GetChats(s)
  \/ \E id \in IdInputs(ChatIds) : GetChatLoad(s, id)
  \/ ReadSave(s)

MessageOps(s) ==
  \/ \E body \in MessageBodies : PostMessageFindChat(s, body)
  \/ PostMessageInsert(s)
  \/ PostMessageLink(s)
  \/ \E id \in IdInputs(ChatIds) : GetMessagesFindChat(s, id)
  \/ GetMessagesFind(s)

ChatFailures(s) ==
  \/ PostChatInsertFails(s)
  \/ ReadSaveFails(s)
  \/ PostMessageInsertFails(s)
  \/ PostMessageLinkFails(s)

Ops(s) ==
  \/ ContactWrites(s) \/ ContactReads(s) \/ ContactFailures(s)
  \/ ChatWrites(s) \/ ChatReads(s) \/ MessageOps(s) \/ ChatFailures(s)

\* every operation, requests overlapping freely
Next == \E s \in Slots : Ops(s)

Spec == Init /\ [][Next]_vars

\* the contact and chat-provisioning operations, one request at a time
ContactSeqNext ==
  \/ ContactWrites(1) \/ ContactReads(1) \/ ContactFailures(1)
  \/ ChatWrites(1) \/ PostChatInsertFails(1) \/ GetChats(1)

ContactSeqSpec == Init /\ [][ContactSeqNext]_vars

\* the writes to contacts and the chat provisioning, overlapping, on accepted
\* bodies and well-formed ids
ContactRaceNext ==
  \E s \in Slots :
    \/ \E body \in RaceBodies : PostContactLookup(s, body)
    \/ PostContactSteps(s)
    \/ \E id \in ContactIds, body \in RaceBodies : PutContactLoad(s, id, body)
    \/ PutContactSteps(s)
    \/ \E id \in ContactIds : DeleteContact(s, id)
    \/ \E id \in ContactIds : PostChatFindContact(s, [contactId |-> id, messageIds |-> <<>>])
    \/ PostChatFindChat(s)
    \/ PostChatInsert(s)
    \/ \E id \in ChatIds : DeleteChat(s, id)

ContactRaceSpec == Init /\ [][ContactRaceNext]_vars

\* the chat and message operations (contacts are created to provision chats),
\* one request at a time, store writes may fail
MessageSeqNext ==
  \/ \E body \in RaceBodies : PostContactLookup(1, body)
  \/ PostContactSteps(1)
  \/ ChatWrites(1) \/ ChatReads(1) \/ MessageOps(1) \/ ChatFailures(1)

MessageSeqSpec == Init /\ [][MessageSeqNext]_vars

\* the same operations overlapping, on accepted bodies and well-formed ids
MessageRaceNext ==
  \E s \in Slots :
    \/ \E body \in RaceBodies : PostContactLookup(s, body)
    \/ PostContactSteps(s)
    \/ \E id \in ChatIds : DeleteChat(s, id)
    \/ \E id \in ChatIds : PostMessageFindChat(s, [chatId |-> id, content |-> Hi])
    \/ PostMessageInsert(s)
    \/ PostMessageLink(s)
    \/ \E id \in ChatIds : GetChatLoad(s, id)
    \/ \E id \in ChatIds : GetMessagesFindChat(s, id)
    \/ GetMessagesFind(s)
    \/ ReadSave(s)

MessageRaceSpec == Init /\ [][MessageRaceNext]_vars

\* contacts with their chats and messages, and the two deletes, one request at
\* a time, on accepted bodies and well-formed ids
DeleteSeqNext ==
  \/ \E body \in RaceBodies : PostContactLookup(1, body)
  \/ PostContactSteps(1)
  \/ \E id \in ChatIds : PostMessageFindChat(1, [chatId |-> id, content |-> Hi])
  \/ PostMessageInsert(1)
  \/ PostMessageLink(1)
  \/ \E id \in ContactIds : DeleteContact(1, id)
  \/ \E id \in ChatIds : DeleteChat(1, id)
  \/ GetChats(1)

DeleteSeqSpec == Init /\ [][DeleteSeqNext]_vars

\* a chat with a history of up to MaxHistory messages (n POST /messages, read
\* or not since the last one), and the reads of it, one request at a time
HistoryInit ==
  \E n \in 0..MaxHistory, u \in {0, 1} :
    /\ n = 0 => u = 0
    /\ contacts = (1 :> [name |-> Ana, email |-> MailA, phone |-> Phone9, chatId |-> 1])
    /\ chats = (1 :> [contactId |-> 1, messageIds |-> [i \in 1..n |-> i],
                      lastMessage |-> IF n = 0 THEN NULL ELSE n,
                      unreadCount |-> u, isArchived |-> FALSE])
    /\ messages = [m \in 1..n |-> [chatId |-> 1, content |-> Hi]]
    /\ updatedOrder = <<1>>
    /\ nextId = [contact |-> 2, chat |-> 2, message |-> n + 1]
    /\ req = [s \in Slots |-> Idle]
    /\ failures = 0
    /\ unreadSince = (1 :> u)
    /\ sinceReadStart = [c \in ChatIds |-> IF c = 1 THEN n ELSE 0]
    /\ before = <<>>
    /\ overlapped = FALSE

HistoryNext ==
  \/ GetChatLoad(1, 1)
  \/ ReadSave(1)
  \/ GetMessagesFindChat(1, 1)
  \/ GetMessagesFind(1)

HistorySpec == HistoryInit /\ [][HistoryNext]_vars

\* ------------------------------------------------------------------ properties

Done(s, op) == req[s].op = op /\ req[s].pc = "done"

Failed(s, error) == "error" \in DOMAIN req[s].res /\ req[s].res.error = error

\* the request on connection 1 ran alone and none of its store writes failed
Undisturbed == before # <<>> /\ failures = before.failures

EmailStoredBefore(email) ==
  \E c \in DOMAIN before.contacts : before.contacts[c].email = Lower(email)

\* the contact has exactly one chat, as provisioned, and points at it
ProvisionedChat(id) ==
  /\ id \in DOMAIN contacts
  /\ \E c \in DOMAIN chats :
       /\ FindChatByContact(id) = {c}
       /\ chats[c].messageIds = <<>>
       /\ chats[c].unreadCount = 0
       /\ chats[c].lastMessage = NULL
       /\ chats[c].isArchived = FALSE
       /\ contacts[id].chatId # NULL
       /\ contacts[id].chatId = c

C2_DuplicateEmailRejected ==
  (Done(1, "PostContact") /\ before # <<>> /\ ContactValid(req[1].in)
     /\ EmailStoredBefore(req[1].in.email))
  => (/\ req[1].status = 409
      /\ contacts = before.contacts
      /\ chats = before.chats
      /\ messages = before.messages)

C2_Witness ==
  /\ Done(1, "PostContact") /\ before # <<>>
  /\ req[1].status = 409
  /\ req[1].in.email = MailAUpper

\* C3: no two stored contacts have the same email, whatever the interleaving.
C3_EmailsUnique ==
  \A c, d \in DOMAIN contacts : c # d => contacts[c].email # contacts[d].email

C3_Witness ==
  /\ overlapped
  /\ Cardinality(DOMAIN contacts) = 2
  /\ Done(1, "PostContact") /\ Failed(1, "E11000")

\* C4 as stated: a request that ends on a violation of the email uniqueness
\* constraint, found by the lookup or raised by the unique index, answers 409.
C4_AsStated ==
  \A s \in Slots :
    (req[s].pc = "done" /\ (Failed(s, "duplicate") \/ Failed(s, "E11000")))
    => req[s].status = 409

AtMostOneChatPerContact ==
  \A c, d \in DOMAIN chats : c # d => chats[c].contactId # chats[d].contactId

\* C5 as stated: at most one chat per contact in every state, whatever the
\* interleaving.
C5_AsStated == AtMostOneChatPerContact

\* C5: as long as no request has overlapped another (and no store write has
\* failed), no two chats share a contactId.
C5_OneChatPerContactSequentially ==
  (~overlapped /\ failures = 0) => AtMostOneChatPerContact

C5_Witness ==
  /\ ~overlapped /\ failures = 0
  /\ Done(1, "PostChat") /\ req[1].status = 409

\* the request created exactly one chat, for contact cid, as a fresh chat, and
\* left every other chat as it was
CreatedOneChat(cid) ==
  \E c \in DOMAIN chats \ DOMAIN before.chats :
    /\ DOMAIN chats = DOMAIN before.chats \cup {c}
    /\ \A o \in DOMAIN before.chats : chats[o] = before.chats[o]
    /\ chats[c] = [contactId |-> cid, messageIds |-> <<>>, lastMessage |-> NULL,
                   unreadCount |-> 0, isArchived |-> FALSE]

ChatOfContactBefore(cid) ==
  \E c \in DOMAIN before.chats : before.chats[c].contactId = cid

\* C6 as stated: an accepted POST /chats answers 404 when contactId resolves to
\* no contact and 409 when the contact has a chat, creating nothing; otherwise
\* 201, creating exactly one fresh chat.
C6_AsStated ==
  (Done(1, "PostChat") /\ Undisturbed /\ ChatValid(req[1].in))
  => LET cid == req[1].in.contactId IN
     IF cid \notin DOMAIN before.contacts THEN req[1].status = 404 /\ chats = before.chats
     ELSE IF ChatOfContactBefore(cid) THEN req[1].status = 409 /\ chats = before.chats
     ELSE req[1].status = 201 /\ CreatedOneChat(cid)

\* C6: an accepted POST /chats, run alone and without a failing store write,
\* answers 400 when contactId is no well-formed id, 404 when it is well-formed
\* and resolves to no contact, 409 when the contact has a chat, creating
\* nothing in these cases; otherwise 201, creating exactly one chat for the
\* contact with no messages, unread 0, no last message, not archived, whatever
\* messageIds the body carried.
C6_PostChatOutcomes ==
  (Done(1, "PostChat") /\ Undisturbed /\ ChatValid(req[1].in))
  => LET cid == req[1].in.contactId IN
     IF ~IsObjectId(cid) THEN req[1].status = 400 /\ chats = before.chats
     ELSE IF cid \notin DOMAIN before.contacts THEN req[1].status = 404 /\ chats = before.chats
     ELSE IF ChatOfContactBefore(cid) THEN req[1].status = 409 /\ chats = before.chats
     ELSE req[1].status = 201 /\ CreatedOneChat(cid)

C6_Witness ==
  /\ Done(1, "PostChat") /\ Undisturbed
  /\ req[1].status = 201
  /\ req[1].in.messageIds # <<>>

\* C7 as stated: an accepted POST /messages whose chatId resolves to no chat
\* answers 404 with details.chatId the id that was sent; no message is
\* persisted and no chat changes.
C7_AsStated ==
  (Done(1, "PostMessage") /\ before # <<>> /\ MessageValid(req[1].in)
     /\ req[1].in.chatId \notin DOMAIN before.chats)
  => (/\ req[1].status = 404
      /\ req[1].res.chatId = req[1].in.chatId
      /\ messages = before.messages
      /\ chats = before.chats)

\* C7: an accepted POST /messages whose chatId resolves to no chat persists no
\* message and changes no chat; when the chatId is a well-formed id it answers
\* 404 with details.chatId the id that was sent, otherwise 400.
C7_UnknownChatRejected ==
  (Done(1, "PostMessage") /\ before # <<>> /\ MessageValid(req[1].in)
     /\ req[1].in.chatId \notin DOMAIN before.chats)
  => (/\ messages = before.messages
      /\ chats = before.chats
      /\ IF IsObjectId(req[1].in.chatId)
         THEN req[1].status = 404 /\ req[1].res.chatId = req[1].in.chatId
         ELSE req[1].status = 400)

C7_Witness ==
  /\ Done(1, "PostMessage") /\ before # <<>>
  /\ req[1].status = 404
  /\ req[1].res.chatId = req[1].in.chatId
  /\ before.chats # <<>>

\* C8: a POST /messages to chat c that ran alone and answered 201 persisted
\* exactly one message, with chatId c, appended its id to c.messageIds, made
\* it c.lastMessage and raised c.unreadCount by exactly 1.
C8_PostMessageUpdatesChat ==
  (Done(1, "PostMessage") /\ before # <<>> /\ req[1].status = 201)
  => LET c == req[1].in.chatId
         m == req[1].res.id IN
     /\ m \notin DOMAIN before.messages
     /\ DOMAIN messages = DOMAIN before.messages \cup {m}
     /\ \A o \in DOMAIN before.messages : messages[o] = before.messages[o]
     /\ messages[m].chatId = c
     /\ c \in DOMAIN before.chats /\ c \in DOMAIN chats
     /\ chats[c].messageIds = before.chats[c].messageIds \o <<m>>
     /\ chats[c].lastMessage = m
     /\ chats[c].unreadCount = before.chats[c].unreadCount + 1

C8_Witness ==
  /\ Done(1, "PostMessage") /\ before # <<>>
  /\ req[1].status = 201
  /\ before.chats[req[1].in.chatId].messageIds # <<>>
  /\ before.chats[req[1].in.chatId].unreadCount > 0

\* C9: in every state, a chat with messages has lastMessage the last element
\* of messageIds, and a chat without messages has lastMessage null.
C9_LastMessageIsTail ==
  \A c \in DOMAIN chats :
    IF chats[c].messageIds = <<>> THEN chats[c].lastMessage = NULL
    ELSE chats[c].lastMessage = chats[c].messageIds[Len(chats[c].messageIds)]

C9_Witness ==
  /\ overlapped
  /\ \E c \in DOMAIN chats :
       /\ Len(chats[c].messageIds) = 2
       /\ chats[c].messageIds[1] > chats[c].messageIds[2]

UnreadCountsExact ==
  \A c \in DOMAIN chats : chats[c].unreadCount = unreadSince[c]

\* C10: whenever no request is in flight, requests having run one at a time,
\* each chat's unreadCount is the number of messages added to it since the last
\* completed GET /chats/:id or GET /messages/chat/:chatId on it, or since its
\* creation when it was never read.
C10_UnreadCountExact == NoneInFlight => UnreadCountsExact

C10_Witness ==
  /\ NoneInFlight
  /\ \E c \in DOMAIN chats : Len(chats[c].messageIds) = 2 /\ chats[c].unreadCount = 1

\* C11 as stated: a GET /chats/:id of a chat whose stored unreadCount is
\* n > 0 answers with unreadCount n in the body (and resets the stored count,
\* so that the next GET /chats/:id answers 0).
C11_AsStated ==
  (Done(1, "GetChat") /\ before # <<>> /\ req[1].status = 200
     /\ req[1].in.id \in DOMAIN before.chats
     /\ before.chats[req[1].in.id].unreadCount > 0)
  => req[1].res.unreadCount = before.chats[req[1].in.id].unreadCount

ReadOps == {"GetChat", "GetMessages"}

\* C12: a GET /chats/:id or GET /messages/chat/:chatId of an existing chat
\* that ran alone and answered 200 leaves the chat's stored unreadCount at 0;
\* when the count was 0 already, no chat was written: the chats, their
\* updatedAt order and the number of failed writes are as before.
C12_ReadMarksChatRead ==
  (req[1].op \in ReadOps /\ req[1].pc = "done" /\ before # <<>> /\ req[1].status = 200)
  => LET id == req[1].in.id IN
     /\ id \in DOMAIN before.chats /\ id \in DOMAIN chats
     /\ chats[id].unreadCount = 0
     /\ before.chats[id].unreadCount = 0
          => (chats = before.chats /\ updatedOrder = before.order
              /\ failures = before.failures)

C12_Witness ==
  /\ Done(1, "GetMessages") /\ before # <<>> /\ req[1].status = 200
  /\ before.chats[req[1].in.id].unreadCount = 0
  /\ Len(updatedOrder) = 2 /\ updatedOrder[2] # req[1].in.id
  /\ before.chats[updatedOrder[2]].unreadCount > 0

\* C13 as stated: GET, PUT (with an accepted body) and DELETE /contacts/:id
\* answer 404 when the id resolves to no contact, and change no record.
C13_AsStated ==
  (req[1].op \in {"GetContact", "PutContact", "DeleteContact"} /\ req[1].pc = "done"
     /\ before # <<>>
     /\ req[1].in.id \notin DOMAIN before.contacts
     /\ (req[1].op = "PutContact" => ContactValid(req[1].in.body)))
  => (/\ req[1].status = 404
      /\ contacts = before.contacts /\ chats = before.chats /\ messages = before.messages)

\* connection s completes the chat write of its POST /messages in this step
LinksMessage(s) ==
  /\ req[s].pc = "messageLink"
  /\ req'[s] # req[s]
  /\ chats' # chats

\* C14: the chat write of a POST /messages stores the unreadCount and the
\* lastMessage it computed from the chat as it read it, whatever another
\* request has stored since; so two POST /messages to one chat that both read
\* it before either writes it both answer 201 with both messages persisted,
\* and leave unreadCount only 1 higher, and lastMessage at the message that
\* was persisted first (the state of C14_Witness).
C14_LastWriterWins ==
  [][\A s \in Slots :
       LinksMessage(s) =>
         LET c == req[s].doc.id IN
         /\ chats'[c].unreadCount = req[s].doc.chat.unreadCount
         /\ chats'[c].lastMessage = req[s].doc.message
         /\ chats'[c].messageIds = Append(chats[c].messageIds, req[s].doc.message)]_vars

C14_Witness ==
  \E c \in DOMAIN chats :
    /\ unreadSince[c] = 2
    /\ chats[c].unreadCount = 1
    /\ chats[c].messageIds = <<2, 1>>
    /\ chats[c].lastMessage = 1
    /\ \A m \in {1, 2} : m \in DOMAIN messages /\ messages[m].chatId = c
    /\ Done(1, "PostMessage") /\ req[1].status = 201

\* the write that connection s has reached is rejected in this step
WriteFails(s, pc) == req[s].pc = pc /\ req'[s] # req[s] /\ failures' > failures

\* C15: when the chat write of a POST /messages fails after its message was
\* written, the message stays persisted with its chatId, the request is
\* answered 400, and every chat is as it was before the request.
C15_FailedChatWriteKeepsMessage ==
  [][\A s \in Slots :
       WriteFails(s, "messageLink") =>
         LET m == req[s].doc.message IN
         /\ m \in DOMAIN messages' /\ m \notin DOMAIN before.messages
         /\ messages'[m].chatId = req[s].in.chatId
         /\ messages' = messages
         /\ chats' = before.chats
         /\ s = 1 => req'[1].status = 400]_vars

C15_Witness ==
  /\ Done(1, "PostMessage") /\ before # <<>> /\ Failed(1, "store")
  /\ req[1].status = 400
  /\ DOMAIN messages # DOMAIN before.messages
  /\ chats = before.chats
  /\ before.chats[req[1].in.chatId].messageIds # <<>>

\* C16: when the chat creation of the post('save') hook fails after the
\* contact of a POST /contacts was written, the contact stays persisted
\* without chatId, no chat refers to it, and the request is answered 400, not
\* 201.
C16_FailedProvisioningKeepsContact ==
  [][\A s \in Slots :
       (req[s].op = "PostContact" /\ WriteFails(s, "hookChat")) =>
         LET id == req[s].doc.id IN
         /\ id \in DOMAIN contacts' /\ id \notin DOMAIN before.contacts
         /\ contacts'[id].chatId = NULL
         /\ \A c \in DOMAIN chats' : chats'[c].contactId # id
         /\ chats' = before.chats
         /\ s = 1 => req'[1].status = 400]_vars

C16_Witness ==
  /\ Done(1, "PostContact") /\ before # <<>> /\ Failed(1, "store")
  /\ req[1].status = 400
  /\ chats = before.chats
  /\ \E id \in DOMAIN contacts \ DOMAIN before.contacts :
       contacts[id].chatId = NULL /\ FindChatByContact(id) = {}

\* coll is before without id, every other element as it was
RemovedOnly(coll, old, id) ==
  /\ id \in DOMAIN old
  /\ DOMAIN coll = DOMAIN old \ {id}
  /\ \A o \in DOMAIN coll : coll[o] = old[o]

\* C17: a DELETE /chats/:id that ran alone and answered 200 removed that chat
\* and nothing else: the other chats, every message (those of the deleted chat
\* included) and every contact (the chatId of its owner included) are as before.
C17_DeleteChatRemovesOnlyChat ==
  (Done(1, "DeleteChat") /\ before # <<>> /\ req[1].status = 200)
  => (/\ RemovedOnly(chats, before.chats, req[1].in.id)
      /\ messages = before.messages
      /\ contacts = before.contacts)

C17_Witness ==
  /\ Done(1, "DeleteChat") /\ before # <<>> /\ req[1].status = 200
  /\ \E m \in DOMAIN messages : messages[m].chatId = req[1].in.id
  /\ \E k \in DOMAIN contacts : contacts[k].chatId = req[1].in.id
  /\ chats # <<>>

\* C18: a DELETE /contacts/:id that ran alone and removed a contact removed
\* that contact and nothing else: its chat, which now refers to no contact,
\* the other chats and every message are as before.
C18_DeleteContactRemovesOnlyContact ==
  (Done(1, "DeleteContact") /\ before # <<>> /\ ~Failed(1, "notFound")
     /\ req[1].status = 200)
  => (/\ RemovedOnly(contacts, before.contacts, req[1].in.id)
      /\ chats = before.chats
      /\ messages = before.messages)

C18_Witness ==
  /\ Done(1, "DeleteContact") /\ before # <<>> /\ ~Failed(1, "notFound")
  /\ req[1].status = 200
  /\ \E c \in DOMAIN chats :
       /\ chats[c].contactId = req[1].in.id
       /\ chats[c].messageIds # <<>>
  /\ contacts # <<>>

\* the payload of the finished request on connection 1 is one the validation
\* schema of its route rejects
RejectedPayload ==
  \/ req[1].op = "PostContact" /\ ~ContactValid(req[1].in)
  \/ req[1].op = "PutContact" /\ ~ContactValid(req[1].in.body)
  \/ req[1].op = "PostChat" /\ ~ChatValid(req[1].in)
  \/ req[1].op = "PostMessage" /\ ~MessageValid(req[1].in)

\* C19 as stated: a payload that the validation schema rejects is answered 400
\* as a validation error, on POST /contacts, PUT /contacts/:id, POST /chats and
\* POST /messages alike, and no record is created, changed or deleted.
C19_AsStated ==
  (req[1].pc = "done" /\ before # <<>> /\ RejectedPayload)
  => (/\ req[1].status = 400
      /\ Failed(1, "validation")
      /\ contacts = before.contacts /\ chats = before.chats /\ messages = before.messages)

\* chat c is created or changed in this step
Written(c) ==
  /\ c \in DOMAIN chats'
  /\ c \notin DOMAIN chats \/ chats'[c] # chats[c]

Latest(order) == order[Len(order)]

\* the finished GET /chats lists every stored chat once, latest write first
ListsEveryChat ==
  Done(1, "GetChats") =>
    LET data == req[1].res.data IN
    /\ {data[i].id : i \in DOMAIN data} = DOMAIN chats
    /\ Len(data) = Cardinality(DOMAIN chats)
    /\ \A i \in DOMAIN data : data[i].id = updatedOrder[Len(data) + 1 - i]

\* a chat that was just written by POST /messages is the latest
PostedChatIsLatest ==
  (Done(1, "PostMessage") /\ req[1].status = 201 /\ req[1].in.chatId \in DOMAIN chats)
  => Latest(updatedOrder) = req[1].in.chatId

\* the latest chat stays the latest until another chat is written or it is deleted
LatestUntilOtherWritten ==
  \A c \in DOMAIN chats :
    (/\ Latest(updatedOrder) = c
     /\ c \in DOMAIN chats'
     /\ \A o \in DOMAIN chats' : Written(o) => o = c)
    => Latest(updatedOrder') = c

\* C20: GET /chats lists every stored chat, ordered by the time of its latest
\* successful write, latest first; after a successful POST /messages to chat c,
\* c is the latest, and stays the first entry of GET /chats until another chat
\* is written.
C20_ChatsListedByLatestWrite ==
  /\ [](ListsEveryChat /\ PostedChatIsLatest)
  /\ [][LatestUntilOtherWritten]_vars

C20_Witness ==
  /\ Done(1, "GetChats")
  /\ Len(req[1].res.data) = 2
  /\ req[1].res.data[1].id = 1
  /\ chats[1].messageIds # <<>>
  /\ chats[2].messageIds = <<>>

\* the messages stored for chat c
MessagesOf(c) == {m \in DOMAIN messages : messages[m].chatId = c}

\* q lists the elements of S once each, in ascending order of creation
ListsAscending(q, S) ==
  /\ {q[i] : i \in DOMAIN q} = S
  /\ Len(q) = Cardinality(S)
  /\ \A i, j \in DOMAIN q : i < j => q[i] < q[j]

\* C21 as stated: a GET /messages/chat/:chatId of an existing chat c that ran
\* alone lists all stored messages of c, in ascending order of creation, and
\* this list is c.messageIds.
C21_AsStated ==
  (Done(1, "GetMessages") /\ before # <<>> /\ req[1].status = 200)
  => (/\ ListsAscending(req[1].res.data, MessagesOf(req[1].in.id))
      /\ req[1].res.data = chats[req[1].in.id].messageIds)

\* C21: a GET /messages/chat/:chatId of an existing chat c that ran alone lists
\* all stored messages of c, in ascending order of creation; as long as no
\* store write has failed, this list is c.messageIds.
C21_ListsMessagesOfChat ==
  (Done(1, "GetMessages") /\ before # <<>> /\ req[1].status = 200)
  => (/\ ListsAscending(req[1].res.data, MessagesOf(req[1].in.id))
      /\ failures = 0 => req[1].res.data = chats[req[1].in.id].messageIds)

C21_Witness ==
  /\ Done(1, "GetMessages") /\ before # <<>> /\ req[1].status = 200
  /\ failures = 0
  /\ Len(req[1].res.data) = 2
  /\ Cardinality(DOMAIN chats) = 2

\* C22: a GET /chats that ran alone changes no stored record: contacts, chats
\* (their unreadCount and contactId included), their updatedAt order and
\* messages are as before; the contact and the last message are resolved in
\* the response.
C22_ListingIsPureRead ==
  (Done(1, "GetChats") /\ before # <<>>)
  => (/\ contacts = before.contacts
      /\ chats = before.chats
      /\ messages = before.messages
      /\ updatedOrder = before.order
      /\ req[1].status = 200
      /\ \A i \in DOMAIN req[1].res.data :
           LET e == req[1].res.data[i] IN
           /\ e.contact = Populate(contacts, chats[e.id].contactId)
           /\ e.lastMessage = Populate(messages, chats[e.id].lastMessage)
           /\ e.unreadCount = chats[e.id].unreadCount)

C22_Witness ==
  /\ Done(1, "GetChats") /\ before # <<>>
  /\ \E i \in DOMAIN req[1].res.data :
       LET e == req[1].res.data[i] IN
       /\ e.unreadCount > 0
       /\ chats[e.id].contactId \in DOMAIN contacts
       /\ chats[e.id].lastMessage \in DOMAIN messages
       /\ e.contact.id = chats[e.id].contactId
       /\ e.lastMessage.id = chats[e.id].lastMessage

\* C23: a GET /chats/:id that ran alone resolves at most 50 messages of the
\* chat, each of them once; all of them when the chat has at most 50, and the
\* 50 most recently created ones when it has more; the stored messageIds are
\* the full history after the request.
C23_ResolvesLatestFifty ==
  (Done(1, "GetChat") /\ before # <<>> /\ req[1].status = 200)
  => LET ids == before.chats[req[1].in.id].messageIds
         all == {ids[i] : i \in DOMAIN ids}
         shown == {req[1].res.messages[i] : i \in DOMAIN req[1].res.messages} IN
     /\ Len(req[1].res.messages) <= 50
     /\ Cardinality(shown) = Len(req[1].res.messages)
     /\ shown \subseteq all
     /\ Len(ids) <= 50 => shown = all
     /\ Len(ids) > 50 =>
          /\ Cardinality(shown) = 50
          /\ \A m \in shown, x \in all \ shown : x < m
     /\ chats[req[1].in.id].messageIds = ids

C23_Witness ==
  /\ Done(1, "GetChat") /\ before # <<>> /\ req[1].status = 200
  /\ Len(before.chats[1].messageIds) > 50
  /\ before.chats[1].unreadCount > 0
  /\ chats[1].unreadCount = 0
  /\ Len(chats[1].messageIds) > 50
  /\ Len(req[1].res.messages) = 50

\* C24: a GET /chats/:id or GET /messages/chat/:chatId that ran alone, whatever
\* it answered, changed at most the unreadCount and the updatedAt of its
\* chat: every other field of that chat, every other chat, every contact and
\* every message are as before.
C24_ReadsChangeOnlyUnreadCount ==
  (req[1].op \in ReadOps /\ req[1].pc = "done" /\ before # <<>>)
  => (/\ contacts = before.contacts
      /\ messages = before.messages
      /\ DOMAIN chats = DOMAIN before.chats
      /\ \A c \in DOMAIN chats :
           IF c = req[1].in.id
           THEN [chats[c] EXCEPT !.unreadCount = 0] = [before.chats[c] EXCEPT !.unreadCount = 0]
           ELSE chats[c] = before.chats[c])

C24_Witness ==
  /\ Done(1, "GetChat") /\ before # <<>> /\ req[1].status = 200
  /\ chats # before.chats
  /\ updatedOrder # before.order
  /\ Len(chats[req[1].in.id].messageIds) = 2
  /\ Cardinality(DOMAIN chats) = 2

Linking == \E s \in Slots : req[s].pc = "messageLink"

\* the ids in each chat's messageIds are pairwise distinct and are the ids of
\* the stored messages of that chat
MessageIdsExact ==
  \A c \in DOMAIN chats :
    /\ \A i, j \in DOMAIN chats[c].messageIds :
         i # j => chats[c].messageIds[i] # chats[c].messageIds[j]
    /\ {chats[c].messageIds[i] : i \in DOMAIN chats[c].messageIds} = MessagesOf(c)

\* C26 as stated: in every state reached without a failing store write, the
\* messageIds of every existing chat are pairwise distinct and are exactly the
\* ids of the stored messages of that chat.
C26_AsStated == MessageIdsExact

\* C26: in every state reached without a failing store write in which no
\* POST /messages stands between saving its Message and saving the chat, the
\* messageIds of every existing chat are pairwise distinct and are exactly the
\* ids of the stored messages of that chat, whatever the interleaving.
C26_MessageIdsExactBetweenPosts == ~Linking => MessageIdsExact

C26_Witness ==
  /\ overlapped /\ ~Linking
  /\ \E c \in DOMAIN chats : Len(chats[c].messageIds) = 2 /\ Cardinality(MessagesOf(c)) = 2

\* C27: in every reachable state, with POST /messages and the two reads
\* interleaved in any way, every chat has 0 <= unreadCount <= number of ids
\* in its messageIds.
C27_UnreadCountBounded ==
  \A c \in DOMAIN chats :
    0 <= chats[c].unreadCount /\ chats[c].unreadCount <= Len(chats[c].messageIds)

\* a POST /messages that loaded the chat before a read reset it has written
\* its count back: two unread, one message posted since the reset
C27_Witness ==
  /\ overlapped
  /\ \E c \in DOMAIN chats :
       /\ chats[c].unreadCount = 2 /\ Len(chats[c].messageIds) = 2
       /\ unreadSince[c] = 1

\* no chat counts more unread messages than Messages of it were saved since
\* the latest read of it arrived (since its creation when it was never read)
UnreadWithinSavedSinceRead ==
  \A c \in DOMAIN chats : chats[c].unreadCount <= sinceReadStart[c]

\* C28 as stated: once a read of a chat and a POST /messages to it that ran
\* interleaved have both completed, the chat's unreadCount is at most the
\* number of Messages saved since that read arrived.
C28_AsStated == NoneInFlight => UnreadWithinSavedSinceRead

\* C28: as long as no request has overlapped another and no store write has
\* failed, between requests a chat's unreadCount is at most the number of
\* Messages saved since the latest read of it arrived; and in every run,
\* interleaved or not, the chat write of a POST /messages stores the count it
\* loaded plus 1, whatever a read has stored since.
C28_BoundedWhenNotInterleaved ==
  /\ []((~overlapped /\ NoneInFlight) => UnreadWithinSavedSinceRead)
  /\ [][\A s \in Slots :
          LinksMessage(s) =>
            chats'[req[s].doc.id].unreadCount = req[s].doc.chat.unreadCount]_vars

\* a post, a read and a second post, one after the other
C28_Witness ==
  /\ ~overlapped /\ NoneInFlight
  /\ Done(1, "PostMessage") /\ req[1].status = 201
  /\ \E c \in DOMAIN chats :
       /\ Len(chats[c].messageIds) = 2
       /\ sinceReadStart[c] = 1
       /\ chats[c].unreadCount = 1

\* C29 as stated: between requests that ran one at a time with no failing
\* store write, the chatId that provisioning stored on a contact is the id of
\* a chat of that contact whenever the contact has a chat; so after
\* DELETE /chats/:id and a POST /chats for the contact that answered 201, the
\* contact's chatId is the id of the new chat.
C29_AsStated ==
  (~overlapped /\ failures = 0 /\ NoneInFlight)
  => \A k \in DOMAIN contacts :
       (contacts[k].chatId # NULL /\ FindChatByContact(k) # {})
       => contacts[k].chatId \in FindChatByContact(k)

\* C30: a PUT /contacts/:id that ran alone, found its contact and answered 200
\* leaves every other contact, every message and the contact's chatId-less
\* fields as the body gives them (name trimmed, email lower-cased, phone); when
\* the contact had a chatId, the chatId is kept, whatever the body carries, and
\* no chat is created or changed; when it had none, exactly one chat is
\* created for it and its id stored as the contact's chatId.
C30_PutChangesFieldsAndProvisions ==
  (Done(1, "PutContact") /\ Undisturbed /\ req[1].status = 200 /\ ~Failed(1, "notFound"))
  => LET id == req[1].in.id
         body == req[1].in.body IN
     /\ DOMAIN contacts = DOMAIN before.contacts
     /\ id \in DOMAIN contacts
     /\ \A o \in DOMAIN contacts \ {id} : contacts[o] = before.contacts[o]
     /\ messages = before.messages
     /\ contacts[id].name = Trim(body.name)
     /\ contacts[id].email = Lower(body.email)
     /\ contacts[id].phone = body.phone
     /\ IF before.contacts[id].chatId # NULL
        THEN /\ contacts[id].chatId = before.contacts[id].chatId
             /\ chats = before.chats
        ELSE /\ CreatedOneChat(id)
             /\ contacts[id].chatId \in DOMAIN chats \ DOMAIN before.chats

\* a contact that a failed chat write left without a chat is updated: the
\* PUT changes its name and provisions the chat
C30_Witness ==
  /\ Done(1, "PutContact") /\ Undisturbed /\ req[1].status = 200
  /\ failures > 0
  /\ req[1].in.id \in DOMAIN before.contacts
  /\ before.contacts[req[1].in.id].chatId = NULL
  /\ FindChatByContact(req[1].in.id) = {contacts[req[1].in.id].chatId}
  /\ contacts[req[1].in.id].name # before.contacts[req[1].in.id].name

====
